---- MODULE Spec2Model ----
(***************************************************************************)
(* ThingsBoard bootstrapper (configure_thingsboard.py): device             *)
(* reconciliation, root rule chain reconciliation and the top-level run.   *)
(*                                                                         *)
(* The remote platform is the environment.  It is modelled permissively:   *)
(* it stores what it is sent, creates a new device for every create        *)
(* request and a new credential record for every upsert without an id.     *)
(* Uniqueness of devices and credentials therefore rests on the client.    *)
(* Every request either returns ("ok") or raises RequestError; a request   *)
(* that changes the platform may also be applied and still raise           *)
(* RequestError ("lost": the reply was an error status from a gateway).    *)
(***************************************************************************)
EXTENDS Integers, Sequences, FiniteSets, TLC

VARIABLES
    pc,               \* position of the process
    devices,          \* platform: set of device items [id, name]
    creds,            \* platform: set of credential records
    nextId,           \* platform: next identifier it hands out
    chains,           \* platform: rule chain items, in search-result order
    metadata,         \* platform: chain id -> metadata document
    DEVICES,          \* configuration: sequence of [name, token]
    dev_i,            \* main: number of DEVICES entries already ensured
    token,            \* main: session token
    elapsed,          \* wait_for_tb: seconds since it was entered
    name,             \* ensure_device / find_*: requested name
    access_token,     \* ensure_device: desired secret
    page,             \* find_*: the "data" list of the search result
    device,           \* ensure_device: the device item
    credentials,      \* ensure_device: fetched credential record
    cred_payload,     \* ensure_device: payload of the credential upsert
    root_chain,       \* ensure_kafka_sink_in_root_chain: the chain item
    fetched,          \* metadata document as returned by the read
    doc,              \* metadata document after the local mutation
    kafka_index,
    msg_switch_index,
    writes,           \* write requests issued by the current call
    reqs,             \* requests issued by the current run, in order
    runs,             \* calls started so far
    okRuns,           \* consecutive calls that returned normally
    exit_status,      \* process exit status (NotExited while running)
    ready,            \* wait_for_tb returned normally
    health,           \* wait_for_tb: status of the last health poll
    auth,             \* token attached to each request of reqs
    external,         \* document another writer stored during the call
    tokens,           \* simulator: device access tokens
    once,             \* simulator: --once
    producer,         \* simulator: a Kafka producer is configured
    sim_pc,           \* simulator: position
    tok_i,            \* simulator: tokens of the burst already served
    burst,            \* simulator: bursts begun
    posts,            \* simulator: what was sent, in order
    kafka_bootstrap   \* simulator: --kafka-bootstrap was given

vars == <<pc, devices, creds, nextId, chains, metadata, DEVICES, dev_i, token,
          elapsed, name, access_token, page, device, credentials,
          cred_payload, root_chain, fetched, doc, kafka_index,
          msg_switch_index, writes, reqs, runs, okRuns, exit_status,
          ready, health, auth, external, tokens, once, producer, sim_pc,
          tok_i, burst, posts, kafka_bootstrap>>

platformVars == <<devices, creds, nextId, chains, metadata>>
mainVars     == <<DEVICES, dev_i, token, elapsed, exit_status, ready,
                  health>>
deviceVars   == <<name, access_token, device, credentials, cred_payload>>
chainVars    == <<root_chain, fetched, doc, kafka_index, msg_switch_index,
                  writes, external>>
simVars      == <<tokens, once, producer, sim_pc, tok_i, burst, posts,
                  kafka_bootstrap>>

(***************************************************************************)
(* Bounds                                                                  *)
(***************************************************************************)
MaxNodes == 3
MaxConns == 1
MaxRuns  == 2
MaxCalls == 3
MaxDevices == 2

(***************************************************************************)
(* Values.  A string that the code searches inside is a sequence of        *)
(* segments, so that "contains" and "equals" differ.                       *)
(***************************************************************************)
NoIndex == -1
NoId    == 0
NotExited == -1

KafkaType   == <<"kafka", "TbKafkaNode">>
SwitchType  == <<"filter", "TbMsgTypeSwitchNode">>
OtherType   == <<"telemetry", "TbMsgTimeseriesNode">>
SwitchSub   == <<"TbMsgTypeSwitchNode">>
NodeTypes   == {KafkaType, SwitchType, OtherType}

PostTelemetry == "Post telemetry"
Labels        == {PostTelemetry, "Success"}

Drone1  == <<"drone-", "1">>
Drone10 == <<"drone-", "1", "0">>
DroneNames == <<Drone1, Drone10>>
Secrets == {"drone-1-token", "drone-2-token"}

RootName   == <<"Root", "Rule", "Chain">>
RootNameV2 == <<"Root", "Rule", "Chain", "v2">>

NoItem    == [id |-> NoId, name |-> <<>>]
NoCred    == [id |-> NoId, deviceId |-> NoId, credentialsId |-> ""]
NoDoc     == [ruleChainId |-> NoId, nodes |-> <<>>, connections |-> <<>>]

\* `sub in s` for strings
Contains(sub, s) ==
    \E i \in 0..(Len(s) - Len(sub)) : SubSeq(s, i + 1, i + Len(sub)) = sub

\* the value of the token field of a login response: a session token, or
\* an empty value
NoToken == ""
Tokens  == {"jwt-a", "jwt-b"}
TokenValues == Tokens \cup {NoToken}

\* if token: req.add_header("X-Authorization", f"Bearer {token}")
NoHeader == <<>>
Bearer(tok) == <<"Bearer", tok>>

Sent(tok) == IF tok # NoToken THEN Bearer(tok) ELSE NoHeader

\* what a health poll may answer; NoStatus: no answer (connection refused,
\* timeout)
NoStatus == 0
Statuses == {NoStatus, 200, 204, 401, 403, 503}

IsUp_only200(status) == status = 200

IsUp(status) == status \in {200, 401, 403}

\* one request of the run: what was asked and how it ended
Req(what, outcome) == [what |-> what, outcome |-> outcome]

GetOutcomes  == {"ok", "error"}
PostOutcomes == {"ok", "error", "lost"}
Applied(outcome) == outcome \in {"ok", "lost"}
Raised(outcome)  == outcome \in {"error", "lost"}

\* a RequestError raised by _http_request is caught nowhere in
\* ensure_device: it ends the call
Propagate_swallowed(outcome, next) == next

Propagate(outcome, next) == IF Raised(outcome) THEN "failed" ELSE next

(***************************************************************************)
(* find_device, ensure_device                                              *)
(***************************************************************************)
PageSize == 50

Take(s, n) == SubSeq(s, 1, IF Len(s) < n THEN Len(s) ELSE n)

\* the orders in which the platform may list a set of items
Orderings(S) ==
    {s \in [1..Cardinality(S) -> S] : \A x \in S : \E i \in DOMAIN s : s[i] = x}

\* the platform's text search over devices: the first page of the devices
\* whose name contains the text, in an order the platform chooses
DevicePages(text) ==
    {Take(s, PageSize) :
        s \in Orderings({d \in devices : Contains(text, d.name)})}

SelectDevice_headOnly(items, n) ==
    IF items # <<>> /\ Head(items).name = n THEN Head(items) ELSE NoItem

RECURSIVE SelectDevice(_, _)
SelectDevice(items, n) ==
    IF items = <<>> THEN NoItem
    ELSE IF Head(items).name = n THEN Head(items)
    ELSE SelectDevice(Tail(items), n)

\* if not device:
DeviceMissing_always(item) == TRUE

DeviceMissing(item) == item = NoItem

find_device ==
    /\ pc = "find_device"
    /\ \E outcome \in GetOutcomes :
         /\ reqs' = Append(reqs, Req("search_device", outcome))
         /\ auth' = Append(auth, Sent(token))
         /\ IF outcome = "ok"
            THEN \E p \in DevicePages(name) :
                    /\ page' = p
                    /\ device' = SelectDevice(p, name)
                    /\ pc' = IF DeviceMissing(device')
                             THEN "create_device" ELSE "get_credentials"
                    /\ okRuns' = okRuns
            ELSE /\ page' = <<>>
                 /\ device' = NoItem
                 /\ pc' = "failed"
                 /\ okRuns' = 0
    /\ UNCHANGED <<simVars,
                   platformVars, mainVars, chainVars, name, access_token,
                   credentials, cred_payload, runs>>

\* POST /api/device; the platform may give the new device a credential
\* record of its own with a generated token
ensure_device_create ==
    /\ pc = "create_device"
    /\ \E outcome \in PostOutcomes, auto \in BOOLEAN :
         LET item == [id |-> nextId, name |-> name]
             cred == [id |-> nextId + 1, deviceId |-> nextId,
                      credentialsId |-> "generated"]
         IN  /\ reqs' = Append(reqs, Req("create_device", outcome))
             /\ auth' = Append(auth, Sent(token))
             /\ IF Applied(outcome)
                THEN /\ devices' = devices \cup {item}
                     /\ creds' = IF auto THEN creds \cup {cred} ELSE creds
                     /\ nextId' = nextId + 2
                ELSE UNCHANGED <<devices, creds, nextId>>
             /\ pc' = Propagate(outcome, "get_credentials")
             /\ okRuns' = IF Raised(outcome) THEN 0 ELSE okRuns
             /\ device' = IF Raised(outcome) THEN device ELSE item
    /\ UNCHANGED <<simVars,
                   chains, metadata, mainVars, chainVars, name, access_token,
                   page, credentials, cred_payload, runs>>

\* GET /api/device/{dev_id}/credentials: the record of the device, or an
\* empty body when it has none
CredentialsOf(dev_id) ==
    IF \E c \in creds : c.deviceId = dev_id
    THEN {c \in creds : c.deviceId = dev_id}
    ELSE {NoCred}

ensure_device_credentials ==
    /\ pc = "get_credentials"
    /\ \E outcome \in GetOutcomes :
         /\ reqs' = Append(reqs, Req("get_credentials", outcome))
         /\ auth' = Append(auth, Sent(token))
         /\ IF outcome = "ok"
            THEN /\ credentials' \in CredentialsOf(device.id)
                 /\ pc' = "upsert_credentials"
                 /\ okRuns' = okRuns
            ELSE /\ credentials' = NoCred
                 /\ pc' = "failed"
                 /\ okRuns' = 0
    /\ UNCHANGED <<simVars,
                   platformVars, mainVars, chainVars, name, access_token,
                   page, device, cred_payload, runs>>

CredPayload_keepSecret(current, dev_id, secret) ==
    IF current # NoCred /\ current.id # NoId
    THEN current
    ELSE [id |-> NoId, deviceId |-> dev_id, credentialsId |-> secret]

CredPayload_fresh(current, dev_id, secret) ==
    [id |-> NoId, deviceId |-> dev_id, credentialsId |-> secret]

CredPayload(current, dev_id, secret) ==
    IF current # NoCred /\ current.id # NoId
    THEN [id |-> current.id, deviceId |-> current.deviceId,
          credentialsId |-> secret]
    ELSE [id |-> NoId, deviceId |-> dev_id, credentialsId |-> secret]

\* the platform's upsert: a payload with an id replaces the record of that
\* id, a payload without one becomes a new record
Upserted(payload) ==
    IF payload.id # NoId
    THEN {c \in creds : c.id # payload.id} \cup {payload}
    ELSE creds \cup {[payload EXCEPT !.id = nextId]}

ensure_device_upsert ==
    /\ pc = "upsert_credentials"
    /\ cred_payload' = CredPayload(credentials, device.id, access_token)
    /\ \E outcome \in PostOutcomes :
         /\ reqs' = Append(reqs, Req("upsert_credentials", outcome))
         /\ auth' = Append(auth, Sent(token))
         /\ IF Applied(outcome)
            THEN /\ creds' = Upserted(cred_payload')
                 /\ nextId' = IF cred_payload'.id = NoId
                               THEN nextId + 1 ELSE nextId
            ELSE UNCHANGED <<creds, nextId>>
         /\ pc' = Propagate(outcome, "device_done")
         /\ okRuns' = IF Raised(outcome) THEN 0 ELSE okRuns + 1
    /\ UNCHANGED <<simVars,
                   devices, chains, metadata, mainVars, chainVars, name,
                   access_token, page, device, credentials, runs>>

(***************************************************************************)
(* find_rule_chain                                                         *)
(***************************************************************************)
\* the platform's text search over rule chains: the first page of the
\* chains whose name contains the text
TextSearch(items, text) ==
    Take(SelectSeq(items, LAMBDA it : Contains(text, it.name)), PageSize)

SelectRuleChain_first(items, n) ==
    IF items = <<>> THEN NoItem ELSE Head(items)

RECURSIVE SelectRuleChain_nearMatch(_, _)
SelectRuleChain_nearMatch(items, n) ==
    IF items = <<>> THEN NoItem
    ELSE IF Contains(n, Head(items).name) THEN Head(items)
    ELSE SelectRuleChain_nearMatch(Tail(items), n)

RECURSIVE SelectRuleChain(_, _)
SelectRuleChain(items, n) ==
    IF items = <<>> THEN NoItem
    ELSE IF Head(items).name = n THEN Head(items)
    ELSE SelectRuleChain(Tail(items), n)

find_rule_chain ==
    /\ pc = "find_rule_chain"
    /\ \E outcome \in GetOutcomes :
         /\ reqs' = Append(reqs, Req("search_chain", outcome))
         /\ auth' = Append(auth, Sent(token))
         /\ name' = RootName
         /\ IF outcome = "ok"
            THEN /\ page' = TextSearch(chains, RootName)
                 /\ root_chain' = SelectRuleChain(page', RootName)
                 /\ IF root_chain' = NoItem
                    THEN /\ pc' = "failed"
                         /\ okRuns' = 0
                    ELSE /\ pc' = "get_metadata"
                         /\ okRuns' = okRuns
            ELSE /\ page' = <<>>
                 /\ root_chain' = NoItem
                 /\ pc' = "failed"
                 /\ okRuns' = 0
    /\ UNCHANGED <<simVars, external,
                   platformVars, mainVars, access_token, device, credentials,
                   cred_payload, fetched, doc, kafka_index, msg_switch_index,
                   writes, runs>>

(***************************************************************************)
(* ensure_kafka_sink_in_root_chain                                         *)
(***************************************************************************)
IsKafkaNode(node) == node.type = KafkaType

IsMsgSwitchNode(node) == Contains(SwitchSub, node.type)

\* next((idx for idx, node in enumerate(nodes) if ...), None), from idx = i
RECURSIVE KafkaIndexFrom(_, _)
KafkaIndexFrom(nodes, i) ==
    IF i >= Len(nodes) THEN NoIndex
    ELSE IF IsKafkaNode(nodes[i + 1]) THEN i
    ELSE KafkaIndexFrom(nodes, i + 1)

RECURSIVE MsgSwitchIndexFrom(_, _)
MsgSwitchIndexFrom(nodes, i) ==
    IF i >= Len(nodes) THEN NoIndex
    ELSE IF IsMsgSwitchNode(nodes[i + 1]) THEN i
    ELSE MsgSwitchIndexFrom(nodes, i + 1)

RECURSIVE KafkaIndex_last(_)
KafkaIndex_last(nodes) ==
    IF nodes = <<>> THEN NoIndex
    ELSE IF IsKafkaNode(nodes[Len(nodes)]) THEN Len(nodes) - 1
    ELSE KafkaIndex_last(SubSeq(nodes, 1, Len(nodes) - 1))

KafkaIndex(nodes) == KafkaIndexFrom(nodes, 0)

MsgSwitchIndex(nodes) == MsgSwitchIndexFrom(nodes, 0)

SwitchMissing_never(i) == FALSE

SwitchMissing(i) == i = NoIndex

\* str(uuid4()): an id no node of the document has
FreshNodeId(nodes) ==
    CHOOSE n \in 1..(Len(nodes) + 1) : \A k \in 1..Len(nodes) : nodes[k].id # n

KafkaNode(nodes) == [id |-> FreshNodeId(nodes), type |-> KafkaType]

WithKafkaNode_front(nodes) == <<KafkaNode(nodes)>> \o nodes

WithKafkaNode(nodes) == Append(nodes, KafkaNode(nodes))

HasConnection(connections, from, to) ==
    \E k \in 1..Len(connections) :
        /\ connections[k].fromIndex = from
        /\ connections[k].toIndex = to

Connection_reversed(from, to) ==
    [fromIndex |-> to, toIndex |-> from, type |-> PostTelemetry]

Connection(from, to) ==
    [fromIndex |-> from, toIndex |-> to, type |-> PostTelemetry]

WithConnection_always(connections, from, to) ==
    Append(connections, Connection(from, to))

WithConnection(connections, from, to) ==
    IF HasConnection(connections, from, to)
    THEN connections
    ELSE Append(connections, Connection(from, to))

ensure_kafka_sink_metadata ==
    /\ pc = "get_metadata"
    /\ \E outcome \in GetOutcomes :
         /\ reqs' = Append(reqs, Req("get_metadata", outcome))
         /\ auth' = Append(auth, Sent(token))
         /\ IF outcome = "ok"
            THEN /\ fetched' = metadata[root_chain.id]
                 /\ pc' = "reconcile"
                 /\ okRuns' = okRuns
            ELSE /\ fetched' = NoDoc
                 /\ pc' = "failed"
                 /\ okRuns' = 0
    /\ UNCHANGED <<simVars, external,
                   platformVars, mainVars, deviceVars, page, root_chain, doc,
                   kafka_index, msg_switch_index, writes, runs>>

ensure_kafka_sink_reconcile ==
    /\ pc = "reconcile"
    /\ msg_switch_index' = MsgSwitchIndex(fetched.nodes)
    /\ IF SwitchMissing(msg_switch_index')
       THEN /\ pc' = "failed"
            /\ okRuns' = 0
            /\ kafka_index' = KafkaIndex(fetched.nodes)
            /\ doc' = fetched
       ELSE LET found == KafkaIndex(fetched.nodes)
                nodes == IF found = NoIndex
                         THEN WithKafkaNode(fetched.nodes)
                         ELSE fetched.nodes
            IN  /\ kafka_index' = IF found = NoIndex
                                  THEN Len(nodes) - 1 ELSE found
                /\ doc' = [fetched EXCEPT
                             !.nodes = nodes,
                             !.connections =
                                 WithConnection(fetched.connections,
                                                msg_switch_index',
                                                kafka_index')]
                /\ pc' = "write_primary"
                /\ okRuns' = okRuns
    /\ UNCHANGED <<simVars, external, auth,
                   platformVars, mainVars, deviceVars, page, root_chain,
                   fetched, writes, reqs, runs>>

\* try: primary  except RequestError: secondary
AfterPrimary_giveUp(outcome) ==
    IF Raised(outcome) THEN "failed" ELSE "chain_done"

AfterPrimary(outcome) ==
    IF Raised(outcome) THEN "write_secondary" ELSE "chain_done"

Write(endpoint, payload, outcome) ==
    [endpoint |-> endpoint, payload |-> payload, outcome |-> outcome]

\* payload=metadata: the dictionary that was read, changed in place
Payload_unmutated(read, mutated) == read

Payload(read, mutated) == mutated

\* POST /api/ruleChain/{chain_id}/metadata
ensure_kafka_sink_write_primary ==
    /\ pc = "write_primary"
    /\ \E outcome \in PostOutcomes :
         /\ reqs' = Append(reqs, Req("write_primary", outcome))
         /\ auth' = Append(auth, Sent(token))
         /\ writes' = Append(writes,
                              Write("primary", Payload(fetched, doc), outcome))
         /\ metadata' = IF Applied(outcome)
                        THEN [metadata EXCEPT
                                ![root_chain.id] = Payload(fetched, doc)]
                        ELSE metadata
         /\ pc' = AfterPrimary(outcome)
         /\ okRuns' = IF pc' = "chain_done" THEN okRuns + 1
                      ELSE IF pc' = "failed" THEN 0 ELSE okRuns
    /\ UNCHANGED <<simVars, external,
                   devices, creds, nextId, chains, mainVars, deviceVars, page,
                   root_chain, fetched, doc, kafka_index, msg_switch_index,
                   runs>>

\* POST /api/ruleChain/metadata: the chain is named by the document
ensure_kafka_sink_write_secondary ==
    /\ pc = "write_secondary"
    /\ \E outcome \in PostOutcomes :
         /\ reqs' = Append(reqs, Req("write_secondary", outcome))
         /\ auth' = Append(auth, Sent(token))
         /\ writes' = Append(writes,
                              Write("secondary", Payload(fetched, doc), outcome))
         /\ metadata' = IF Applied(outcome)
                        THEN [metadata EXCEPT
                                ![Payload(fetched, doc).ruleChainId] = Payload(fetched, doc)]
                        ELSE metadata
         /\ IF Raised(outcome)
            THEN /\ pc' = "failed"
                 /\ okRuns' = 0
            ELSE /\ pc' = "chain_done"
                 /\ okRuns' = okRuns + 1
    /\ UNCHANGED <<simVars, external,
                   devices, creds, nextId, chains, mainVars, deviceVars, page,
                   root_chain, fetched, doc, kafka_index, msg_switch_index,
                   runs>>

\* the bootstrapper is run again (the role is applied again) once the
\* previous call has returned or raised
main_rerun_chain ==
    /\ pc \in {"chain_done", "failed"}
    /\ runs < MaxRuns
    /\ pc' = "find_rule_chain"
    /\ runs' = runs + 1
    /\ reqs' = <<>>
    /\ auth' = <<>>
    /\ writes' = <<>>
    /\ page' = <<>>
    /\ root_chain' = NoItem
    /\ fetched' = NoDoc
    /\ doc' = NoDoc
    /\ kafka_index' = NoIndex
    /\ msg_switch_index' = NoIndex
    /\ external' = NoDoc
    /\ UNCHANGED <<simVars, platformVars, mainVars, deviceVars, okRuns>>

\* the simulator is a separate program; it is not running
SimIdle ==
    /\ tokens = <<>>
    /\ once = TRUE
    /\ producer = FALSE
    /\ sim_pc = "idle"
    /\ tok_i = 0
    /\ burst = 0
    /\ posts = <<>>
    /\ kafka_bootstrap = FALSE

(***************************************************************************)
(* Initial states of the rule chain reconciliation                         *)
(***************************************************************************)
SeqsUpTo(S, n) == UNION {[1..k -> S] : k \in 0..n}

NodesOf(types) == [k \in 1..Len(types) |-> [id |-> k, type |-> types[k]]]

ConnsOver(n) ==
    [fromIndex : 0..(n - 1), toIndex : 0..(n - 1), type : Labels]

RootItem   == [id |-> 1, name |-> RootName]
RootItemV2 == [id |-> 2, name |-> RootNameV2]

BootstrapLocals ==
    /\ devices = {}
    /\ creds = {}
    /\ nextId = 10
    /\ DEVICES = <<>>
    /\ dev_i = 0
    /\ token = "jwt-a"
    /\ elapsed = 0
    /\ name = <<>>
    /\ access_token = ""
    /\ page = <<>>
    /\ device = NoItem
    /\ credentials = NoCred
    /\ cred_payload = NoCred
    /\ root_chain = NoItem
    /\ fetched = NoDoc
    /\ doc = NoDoc
    /\ kafka_index = NoIndex
    /\ msg_switch_index = NoIndex
    /\ writes = <<>>
    /\ reqs = <<>>
    /\ auth = <<>>
    /\ health = NoStatus
    /\ external = NoDoc
    /\ runs = 1
    /\ okRuns = 0
    /\ exit_status = NotExited
    /\ ready = TRUE

InitLocals ==
    /\ BootstrapLocals
    /\ SimIdle

RootOnly == <<RootItem>>
ChainLists ==
    {<<>>, <<RootItemV2>>, RootOnly, <<RootItemV2, RootItem>>,
     <<RootItem, RootItemV2>>}

PlainDoc(cid) ==
    [ruleChainId |-> cid, nodes |-> NodesOf(<<SwitchType>>),
     connections |-> <<>>]

\* every document of at most MaxNodes nodes and MaxConns connections when
\* the root chain is the only chain; two documents under the other listings
InitTypes(cl) ==
    IF cl = RootOnly THEN SeqsUpTo(NodeTypes, MaxNodes)
    ELSE {<<SwitchType>>, <<OtherType>>}

InitConns(cl, types) ==
    IF cl = RootOnly THEN SeqsUpTo(ConnsOver(Len(types)), MaxConns)
    ELSE {<<>>}

InitChain ==
    /\ InitLocals
    /\ pc = "find_rule_chain"
    /\ \E cl \in ChainLists :
         \E types \in InitTypes(cl) :
            \E conns \in InitConns(cl, types) :
               /\ chains = cl
               /\ metadata =
                     [c \in {cl[k].id : k \in DOMAIN cl} |->
                        IF c = RootItem.id
                        THEN [ruleChainId |-> c, nodes |-> NodesOf(types),
                              connections |-> conns]
                        ELSE PlainDoc(c)]

(***************************************************************************)
(* Initial states of the device reconciliation: each name is absent, or    *)
(* held by one device that has no credential record or has one             *)
(***************************************************************************)
DeviceStates == {"absent", "bare"} \cup Secrets

DevicesOf(st) ==
    {[id |-> k, name |-> DroneNames[k]] :
        k \in {j \in DOMAIN DroneNames : st[j] # "absent"}}

CredsOf(st) ==
    {[id |-> Len(DroneNames) + k, deviceId |-> k, credentialsId |-> st[k]] :
        k \in {j \in DOMAIN DroneNames : st[j] \in Secrets}}

\* main calls ensure_device(token, dev["name"], dev["token"]); over the runs
\* of the bootstrapper the arguments are any name and any secret
main_call_ensure_device ==
    /\ pc \in {"idle", "device_done", "failed"}
    /\ runs < MaxCalls
    /\ \E k \in DOMAIN DroneNames, s \in Secrets :
         /\ name' = DroneNames[k]
         /\ access_token' = s
         /\ okRuns' = IF /\ pc = "device_done"
                         /\ name = DroneNames[k]
                         /\ access_token = s
                      THEN okRuns ELSE 0
    /\ pc' = "find_device"
    /\ runs' = runs + 1
    /\ reqs' = <<>>
    /\ auth' = <<>>
    /\ page' = <<>>
    /\ device' = NoItem
    /\ credentials' = NoCred
    /\ cred_payload' = NoCred
    /\ UNCHANGED <<simVars,
                   platformVars, mainVars, chainVars>>

InitDevice ==
    /\ pc = "idle"
    /\ \E st \in [DOMAIN DroneNames -> DeviceStates] :
         /\ devices = DevicesOf(st)
         /\ creds = CredsOf(st)
    /\ nextId = 2 * Len(DroneNames) + 1
    /\ chains = <<RootItem>>
    /\ metadata = [c \in {1} |-> [NoDoc EXCEPT !.ruleChainId = 1]]
    /\ DEVICES = <<>>
    /\ dev_i = 0
    /\ token = "jwt-a"
    /\ elapsed = 0
    /\ name = <<>>
    /\ access_token = ""
    /\ page = <<>>
    /\ device = NoItem
    /\ credentials = NoCred
    /\ cred_payload = NoCred
    /\ root_chain = NoItem
    /\ fetched = NoDoc
    /\ doc = NoDoc
    /\ kafka_index = NoIndex
    /\ msg_switch_index = NoIndex
    /\ writes = <<>>
    /\ reqs = <<>>
    /\ auth = <<>>
    /\ health = NoStatus
    /\ external = NoDoc
    /\ SimIdle
    /\ runs = 0
    /\ okRuns = 0
    /\ exit_status = NotExited
    /\ ready = TRUE

NextDevice ==
    \/ main_call_ensure_device
    \/ find_device
    \/ ensure_device_create
    \/ ensure_device_credentials
    \/ ensure_device_upsert

SpecDevice == InitDevice /\ [][NextDevice]_vars

NextChain ==
    \/ find_rule_chain
    \/ ensure_kafka_sink_metadata
    \/ ensure_kafka_sink_reconcile
    \/ ensure_kafka_sink_write_primary
    \/ ensure_kafka_sink_write_secondary
    \/ main_rerun_chain

SpecChain == InitChain /\ [][NextChain]_vars

\* one call of ensure_kafka_sink_in_root_chain, from the same initial states
NextCall ==
    \/ find_rule_chain
    \/ ensure_kafka_sink_metadata
    \/ ensure_kafka_sink_reconcile
    \/ ensure_kafka_sink_write_primary
    \/ ensure_kafka_sink_write_secondary

SpecCall == InitChain /\ [][NextCall]_vars

(***************************************************************************)
(* wait_for_tb, login, main                                                *)
(***************************************************************************)
Timeout       == 240
HealthTimeout == 5
PollSleep     == 5

\* one turn of the polling loop; a poll takes no time or runs into its
\* own timeout
wait_for_tb ==
    /\ pc = "wait_for_tb"
    /\ IF elapsed < Timeout
       THEN \E status \in Statuses, took \in {0, HealthTimeout} :
               /\ health' = status
               /\ IF IsUp(status)
                  THEN /\ pc' = "login"
                       /\ elapsed' = 0
                       /\ ready' = TRUE
                  ELSE /\ pc' = "wait_for_tb"
                       /\ elapsed' = elapsed + took + PollSleep
                       /\ ready' = ready
       ELSE /\ pc' = "failed"
            /\ elapsed' = elapsed
            /\ ready' = ready
            /\ health' = health
    /\ UNCHANGED <<simVars, auth, platformVars, DEVICES, dev_i, token,
                   exit_status, deviceVars, chainVars, page, reqs, runs,
                   okRuns>>

login ==
    /\ pc = "login"
    /\ health' = NoStatus
    /\ \E outcome \in {"token", "no_token", "error"} :
         /\ reqs' = Append(reqs, Req("login", outcome))
         /\ auth' = Append(auth, Sent(NoToken))
         /\ IF outcome = "token"
            THEN /\ token' \in TokenValues
                 /\ pc' = "loop"
            ELSE /\ token' = token
                 /\ pc' = "failed"
    /\ UNCHANGED <<simVars, platformVars, DEVICES, dev_i, elapsed,
                   exit_status, ready, deviceVars, chainVars, page, runs,
                   okRuns>>

\* for dev in DEVICES: ensure_device(...); then the rule chain
\* the number of devices ensured once control is back in the loop
Ensured_skip(at, i) == IF at = "device_done" THEN i + 2 ELSE i

Ensured(at, i) == IF at = "device_done" THEN i + 1 ELSE i

main_loop ==
    /\ pc \in {"loop", "device_done"}
    /\ LET done == Ensured(pc, dev_i)
       IN  /\ dev_i' = done
           /\ IF done < Len(DEVICES)
              THEN /\ name' = DEVICES[done + 1].name
                   /\ access_token' = DEVICES[done + 1].token
                   /\ pc' = "find_device"
              ELSE /\ name' = name
                   /\ access_token' = access_token
                   /\ pc' = "find_rule_chain"
    /\ page' = <<>>
    /\ device' = NoItem
    /\ credentials' = NoCred
    /\ cred_payload' = NoCred
    /\ UNCHANGED <<simVars, health, auth,
                   platformVars, DEVICES, token, elapsed, exit_status, ready,
                   chainVars, reqs, runs, okRuns>>

main_complete ==
    /\ pc = "chain_done"
    /\ pc' = "exited"
    /\ exit_status' = 0
    /\ UNCHANGED <<simVars, health, auth,
                   platformVars, DEVICES, dev_i, token, elapsed, ready, deviceVars,
                   chainVars, page, reqs, runs, okRuns>>

\* raise SystemExit(str(exc))
main_abort ==
    /\ pc = "failed"
    /\ pc' = "exited"
    /\ exit_status' = 1
    /\ UNCHANGED <<simVars, health, auth,
                   platformVars, DEVICES, dev_i, token, elapsed, ready, deviceVars,
                   chainVars, page, reqs, runs, okRuns>>

InitDocs ==
    {[ruleChainId |-> RootItem.id, nodes |-> NodesOf(types),
      connections |-> <<>>] : types \in {<<OtherType>>, <<SwitchType>>}}

Init ==
    /\ pc = "wait_for_tb"
    /\ \E st \in [DOMAIN DroneNames -> DeviceStates] :
         /\ devices = DevicesOf(st)
         /\ creds = CredsOf(st)
    /\ nextId = 2 * Len(DroneNames) + 1
    /\ chains \in {RootOnly, <<RootItemV2>>, <<RootItemV2, RootItem>>}
    /\ \E d \in InitDocs :
         metadata = [c \in {chains[k].id : k \in DOMAIN chains} |->
                       IF c = RootItem.id THEN d ELSE PlainDoc(c)]
    /\ DEVICES \in SeqsUpTo([name : {DroneNames[k] : k \in DOMAIN DroneNames},
                              token : Secrets], MaxDevices)
    /\ dev_i = 0
    /\ token = NoToken
    /\ elapsed = 0
    /\ name = <<>>
    /\ access_token = ""
    /\ page = <<>>
    /\ device = NoItem
    /\ credentials = NoCred
    /\ cred_payload = NoCred
    /\ root_chain = NoItem
    /\ fetched = NoDoc
    /\ doc = NoDoc
    /\ kafka_index = NoIndex
    /\ msg_switch_index = NoIndex
    /\ writes = <<>>
    /\ reqs = <<>>
    /\ auth = <<>>
    /\ health = NoStatus
    /\ external = NoDoc
    /\ SimIdle
    /\ runs = 1
    /\ okRuns = 0
    /\ exit_status = NotExited
    /\ ready = FALSE

Next ==
    \/ wait_for_tb
    \/ login
    \/ main_loop
    \/ find_device
    \/ ensure_device_create
    \/ ensure_device_credentials
    \/ ensure_device_upsert
    \/ find_rule_chain
    \/ ensure_kafka_sink_metadata
    \/ ensure_kafka_sink_reconcile
    \/ ensure_kafka_sink_write_primary
    \/ ensure_kafka_sink_write_secondary
    \/ main_complete
    \/ main_abort

Spec == Init /\ [][Next]_vars

(***************************************************************************)
(* One reconciliation of the rule chain while another client of the        *)
(* platform saves the same document once, after the metadata was read      *)
(***************************************************************************)
MaxRaceNodes == 2

\* what the other client saves: the stored document with one more node of
\* its own, or with one more connection of its own
ExternalNode(nodes) == [id |-> FreshNodeId(nodes), type |-> OtherType]

ExternalConnection == [fromIndex |-> 0, toIndex |-> 0, type |-> "Success"]

ExternalChanges(d) ==
    {[d EXCEPT !.nodes = Append(d.nodes, ExternalNode(d.nodes))],
     [d EXCEPT !.connections = Append(d.connections, ExternalConnection)]}

external_writer ==
    /\ pc \in {"reconcile", "write_primary", "write_secondary"}
    /\ external = NoDoc
    /\ \E changed \in ExternalChanges(metadata[root_chain.id]) :
         /\ metadata' = [metadata EXCEPT ![root_chain.id] = changed]
         /\ external' = changed
    /\ UNCHANGED <<pc, simVars, auth, devices, creds, nextId, chains,
                   mainVars, deviceVars, page, root_chain, fetched, doc,
                   kafka_index,
                   msg_switch_index, writes, reqs, runs, okRuns>>

InitRace ==
    /\ InitLocals
    /\ pc = "find_rule_chain"
    /\ chains = RootOnly
    /\ \E types \in SeqsUpTo(NodeTypes, MaxRaceNodes) :
         \E conns \in SeqsUpTo(ConnsOver(Len(types)), MaxConns) :
            metadata = [c \in {RootItem.id} |->
                          [ruleChainId |-> c, nodes |-> NodesOf(types),
                           connections |-> conns]]

NextRace ==
    \/ find_rule_chain
    \/ ensure_kafka_sink_metadata
    \/ ensure_kafka_sink_reconcile
    \/ ensure_kafka_sink_write_primary
    \/ ensure_kafka_sink_write_secondary
    \/ external_writer

SpecRace == InitRace /\ [][NextRace]_vars

(***************************************************************************)
(* The readiness wait and what follows it at once, in a run that has no    *)
(* device to ensure; the polling loop is not held up forever               *)
(***************************************************************************)
InitWait ==
    /\ Init
    /\ DEVICES = <<>>
    /\ chains = RootOnly

NextWait ==
    \/ wait_for_tb
    \/ login
    \/ main_abort

SpecWait == InitWait /\ [][NextWait]_vars /\ WF_vars(wait_for_tb)

(***************************************************************************)
(* drone_simulator.py: run_simulation                                      *)
(***************************************************************************)
MaxTokens == 2
MaxBursts == 2

SimTokens == {"drone-1-token", "drone-2-token"}

bootstrapVars == <<pc, platformVars, mainVars, deviceVars, chainVars, page,
                   reqs, auth, runs, okRuns>>

\* tokens.index(token): the position of the first occurrence
RECURSIVE IndexFrom(_, _, _)
IndexFrom(list, x, i) ==
    IF list[i + 1] = x THEN i ELSE IndexFrom(list, x, i + 1)

\* f"drone-{tokens.index(token)+1}"
DroneId(list, tok) == IndexFrom(list, tok, 0) + 1

Post(kind, tok, drone_id, outcome) ==
    [kind |-> kind, token |-> tok, drone_id |-> drone_id,
     outcome |-> outcome]

\* response.raise_for_status(), or the exception of requests.post itself
AfterPost_ignore(outcome, next) == next

AfterPost(outcome, next) == IF outcome = "ok" THEN next ELSE "raised"

\* producer = None; if kafka_bootstrap: ... KafkaProducer(...)
run_simulation_setup ==
    /\ sim_pc = "setup"
    /\ IF kafka_bootstrap
       THEN \E made \in {"ok", "missing", "error"} :
               /\ producer' = (made = "ok")
               /\ sim_pc' = IF made = "ok" THEN "post" ELSE "raised"
               /\ burst' = IF made = "ok" THEN 1 ELSE burst
       ELSE /\ producer' = FALSE
            /\ sim_pc' = "post"
            /\ burst' = 1
    /\ tok_i' = 0
    /\ UNCHANGED <<bootstrapVars, tokens, once, posts, kafka_bootstrap>>

\* for token in tokens: ... send_telemetry(base_url, token, payload, verbose)
send_telemetry ==
    /\ sim_pc = "post"
    /\ tok_i < Len(tokens)
    /\ LET tok == tokens[tok_i + 1]
       IN  \E outcome \in {"ok", "error"} :
              /\ posts' = Append(posts, Post("http", tok,
                                             DroneId(tokens, tok), outcome))
              /\ sim_pc' = AfterPost(outcome,
                                     IF producer THEN "kafka" ELSE "post")
              /\ tok_i' = IF sim_pc' = "post" THEN tok_i + 1 ELSE tok_i
    /\ UNCHANGED <<bootstrapVars, tokens, once, producer, burst,
                   kafka_bootstrap>>

\* if producer: send_to_kafka(producer, kafka_topic, payload, verbose)
send_to_kafka ==
    /\ sim_pc = "kafka"
    /\ LET tok == tokens[tok_i + 1]
       IN  \E outcome \in {"ok", "error"} :
              /\ posts' = Append(posts, Post("kafka", tok,
                                             DroneId(tokens, tok), outcome))
              /\ sim_pc' = IF outcome = "ok" THEN "post" ELSE "raised"
              /\ tok_i' = IF outcome = "ok" THEN tok_i + 1 ELSE tok_i
    /\ UNCHANGED <<bootstrapVars, tokens, once, producer, burst,
                   kafka_bootstrap>>

\* if once: break
run_simulation_burst_end ==
    /\ sim_pc = "post"
    /\ tok_i = Len(tokens)
    /\ sim_pc' = IF once THEN "returned" ELSE "sleep"
    /\ UNCHANGED <<bootstrapVars, tokens, once, producer, tok_i, burst,
                   posts, kafka_bootstrap>>

\* time.sleep(interval), then the next turn of while True
run_simulation_sleep ==
    /\ sim_pc = "sleep"
    /\ burst < MaxBursts
    /\ sim_pc' = "post"
    /\ tok_i' = 0
    /\ burst' = burst + 1
    /\ UNCHANGED <<bootstrapVars, tokens, once, producer, posts,
                   kafka_bootstrap>>

InitSim ==
    /\ BootstrapLocals
    /\ pc = "idle"
    /\ chains = <<>>
    /\ metadata = <<>>
    /\ tokens \in SeqsUpTo(SimTokens, MaxTokens)
    /\ once \in BOOLEAN
    /\ kafka_bootstrap \in BOOLEAN
    /\ producer = FALSE
    /\ sim_pc = "setup"
    /\ tok_i = 0
    /\ burst = 0
    /\ posts = <<>>

NextSim ==
    \/ run_simulation_setup
    \/ send_telemetry
    \/ send_to_kafka
    \/ run_simulation_burst_end
    \/ run_simulation_sleep

\* the simulator is one sequential process: its next step is taken
SpecSim == InitSim /\ [][NextSim]_vars /\ WF_vars(NextSim)

(***************************************************************************)
(* Properties of the rule chain reconciliation                             *)
(***************************************************************************)
IsPrefix(s, t) == Len(s) <= Len(t) /\ SubSeq(t, 1, Len(s)) = s

SinkCount(d) == Cardinality({k \in DOMAIN d.nodes : d.nodes[k].type = KafkaType})

EdgeCount(d, from, to, label) ==
    Cardinality({k \in DOMAIN d.connections :
                    d.connections[k] =
                        [fromIndex |-> from, toIndex |-> to, type |-> label]})

HasDispatch(d) ==
    \E k \in DOMAIN d.nodes : Contains(SwitchSub, d.nodes[k].type)

Stored == metadata[root_chain.id]

\* C1: after two runs in succession that both succeeded, on a graph that
\* held at most one sink node and at most one copy of the desired edge, the
\* stored document has exactly one node of the sink type and exactly one
\* edge (dispatch index, sink index, "Post telemetry").
C1_TwoRunsOneSinkOneEdge ==
    (/\ pc = "chain_done"
     /\ okRuns >= 2
     /\ SinkCount(fetched) <= 1
     /\ EdgeCount(fetched, msg_switch_index, kafka_index, PostTelemetry) <= 1)
    => /\ SinkCount(Stored) = 1
       /\ EdgeCount(Stored, msg_switch_index, kafka_index, PostTelemetry) = 1

\* C3: every document sent in a write keeps the nodes that were read as an
\* unchanged prefix of its node sequence and the connections that were read
\* as an unchanged prefix of its connections; at most one node is added.
C3_AppendOnly ==
    \A k \in DOMAIN writes :
        /\ IsPrefix(fetched.nodes, writes[k].payload.nodes)
        /\ IsPrefix(fetched.connections, writes[k].payload.connections)
        /\ Len(writes[k].payload.nodes) <= Len(fetched.nodes) + 1

C3_Witness ==
    /\ pc = "chain_done"
    /\ Len(fetched.nodes) >= 2
    /\ Len(fetched.connections) >= 1
    /\ Len(Stored.nodes) = Len(fetched.nodes) + 1
    /\ Len(Stored.connections) = Len(fetched.connections) + 1

\* C4: after every run that succeeded the stored document has an edge
\* (dispatch index, sink index, "Post telemetry").
C4_EdgeWithLabelPresent ==
    pc = "chain_done"
    => EdgeCount(Stored, msg_switch_index, kafka_index, PostTelemetry) >= 1

\* C6: when the document that was read has no node whose type contains the
\* dispatch substring, the call fails, no write request is issued and the
\* stored document is the one that was read.
C6_NoDispatchNoWrite ==
    (fetched # NoDoc /\ ~HasDispatch(fetched))
    => /\ pc \in {"reconcile", "failed"}
       /\ writes = <<>>
       /\ \A k \in DOMAIN reqs :
             reqs[k].what \notin {"write_primary", "write_secondary"}
       /\ Stored = fetched

C6_Witness ==
    /\ pc = "failed"
    /\ fetched # NoDoc
    /\ Len(fetched.nodes) >= 2
    /\ ~HasDispatch(fetched)
    /\ reqs[Len(reqs)] = Req("get_metadata", "ok")

\* C7: the first write goes to the primary endpoint; the secondary endpoint
\* is tried once, with the same document, exactly when the primary write
\* raised; a call that ends normally has its document stored; when both
\* writes raise the call fails; a call issues at most two writes.
C7_PrimaryThenSecondary ==
    /\ Len(writes) <= 2
    /\ Len(writes) >= 1 => writes[1].endpoint = "primary"
    /\ Len(writes) = 2 =>
          /\ writes[2].endpoint = "secondary"
          /\ writes[2].payload = writes[1].payload
          /\ Raised(writes[1].outcome)
    /\ (Len(writes) = 1 /\ Raised(writes[1].outcome)) => pc = "write_secondary"
    /\ (Len(writes) = 2 /\ Raised(writes[2].outcome)) => pc = "failed"
    /\ pc = "chain_done" =>
          /\ writes # <<>>
          /\ writes[Len(writes)].outcome = "ok"
          /\ Stored = writes[Len(writes)].payload
    /\ pc = "write_secondary" => Len(writes) = 1

C7_Witness ==
    /\ pc = "chain_done"
    /\ Len(writes) = 2
    /\ writes[1].outcome = "error"
    /\ Stored = doc
    /\ doc # fetched

(***************************************************************************)
(* Properties of the device reconciliation                                 *)
(***************************************************************************)
Named(n) == {d \in devices : d.name = n}

RecordsOf(dev_id) == {c \in creds : c.deviceId = dev_id}

LastReq == reqs[Len(reqs)]

C5_PayloadReusesCredentialId ==
    (reqs # <<>> /\ LastReq.what = "upsert_credentials")
    => /\ cred_payload.credentialsId = access_token
       /\ (credentials # NoCred /\ credentials.id # NoId)
             => /\ cred_payload.id = credentials.id
                /\ cred_payload.deviceId = credentials.deviceId
       /\ credentials = NoCred
             => /\ cred_payload.id = NoId
                /\ cred_payload.deviceId = device.id

C5_Witness ==
    /\ reqs # <<>>
    /\ LastReq = Req("upsert_credentials", "ok")
    /\ credentials.id # NoId
    /\ credentials.credentialsId # access_token
    /\ cred_payload.id = credentials.id

\* C8: a lookup by name returns the first item of the result list whose name
\* equals the requested name, and nothing when no item has that name.
ExactFirst(items, n, result) ==
    IF \E k \in DOMAIN items : items[k].name = n
    THEN \E k \in DOMAIN items :
            /\ items[k].name = n
            /\ \A j \in 1..(k - 1) : items[j].name # n
            /\ result = items[k]
    ELSE result = NoItem

C8_ExactNameMatch ==
    reqs # <<>>
    => /\ LastReq = Req("search_device", "ok") => ExactFirst(page, name, device)
       /\ LastReq = Req("search_chain", "ok")
             => ExactFirst(page, RootName, root_chain)

C8_Witness ==
    /\ reqs # <<>>
    /\ LastReq = Req("search_chain", "ok")
    /\ Len(page) = 2
    /\ page[1].name = RootNameV2
    /\ root_chain = page[2]
    /\ root_chain.name = RootName

EntityReqs ==
    {"search_device", "create_device", "get_credentials", "upsert_credentials"}

\* C10: once a request of the device reconciliation has raised, no further
\* request is issued, no later device is ensured, the rule chain is never
\* looked up and the exit status is not zero; the exit status is zero only
\* after readiness, login, every device and the rule chain write succeeded.
C10_FailureIsFatal ==
    /\ \A k \in DOMAIN reqs :
          (reqs[k].what \in EntityReqs /\ Raised(reqs[k].outcome))
          => /\ k = Len(reqs)
             /\ pc \in {"failed", "exited"}
             /\ pc = "exited" => exit_status = 1
             /\ exit_status # 0
             /\ dev_i < Len(DEVICES)
             /\ root_chain = NoItem
             /\ writes = <<>>
    /\ exit_status = 0
          => /\ ready
             /\ reqs[1] = Req("login", "token")
             /\ dev_i = Len(DEVICES)
             /\ Cardinality({k \in DOMAIN reqs :
                    reqs[k] = Req("upsert_credentials", "ok")}) = Len(DEVICES)
             /\ writes # <<>>
             /\ writes[Len(writes)].outcome = "ok"

C10_Witness ==
    /\ pc = "exited"
    /\ exit_status = 1
    /\ Len(DEVICES) = 2
    /\ dev_i = 0
    /\ reqs[Len(reqs)] = Req("create_device", "lost")

ChainReqs ==
    {"search_chain", "get_metadata", "write_primary", "write_secondary"}

DevicePcs ==
    {"find_device", "create_device", "get_credentials", "upsert_credentials"}

ChainPcs ==
    {"find_rule_chain", "get_metadata", "reconcile", "write_primary",
     "write_secondary", "chain_done"}

CountReqs(r) == Cardinality({k \in DOMAIN reqs : reqs[k] = r})

CountWhat(w) == Cardinality({k \in DOMAIN reqs : reqs[k].what = w})

\* C11: the readiness wait completes before login, login completes before
\* any entity request, the desired entities are reconciled one at a time in
\* list order and each at most once, the graph reconciler starts at most
\* once and only after every desired entity was reconciled successfully; a
\* run that exits with status zero reconciled every entity exactly once and
\* ran the graph reconciler exactly once.
C11_StepOrder ==
    LET started  == CountWhat("search_device")
        finished == CountReqs(Req("upsert_credentials", "ok"))
    IN  /\ pc = "wait_for_tb" => reqs = <<>>
        /\ reqs # <<>> => ready /\ reqs[1].what = "login"
        /\ \A k \in DOMAIN reqs :
              k > 1 => reqs[1] = Req("login", "token") /\ reqs[k].what # "login"
        /\ finished <= started
        /\ started <= finished + 1
        /\ started <= Len(DEVICES)
        /\ pc \in DevicePcs
              => /\ dev_i = finished
                 /\ dev_i < Len(DEVICES)
                 /\ name = DEVICES[dev_i + 1].name
                 /\ access_token = DEVICES[dev_i + 1].token
        /\ pc \in ChainPcs => dev_i = Len(DEVICES)
        /\ \A k \in DOMAIN reqs :
              reqs[k].what \in ChainReqs
              => /\ finished = Len(DEVICES)
                 /\ \A j \in k..Len(reqs) : reqs[j].what \in ChainReqs
        /\ CountWhat("search_chain") <= 1
        /\ exit_status = 0
              => /\ started = Len(DEVICES)
                 /\ finished = Len(DEVICES)
                 /\ CountWhat("search_chain") = 1

C11_Witness ==
    /\ pc = "exited"
    /\ exit_status = 0
    /\ Len(DEVICES) = 2
    /\ DEVICES[1].name # DEVICES[2].name

(***************************************************************************)
(* Further properties of the rule chain reconciliation                     *)
(***************************************************************************)
\* C12: when no rule chain is named exactly "Root Rule Chain", the
\* reconciliation fails at the search: it sends nothing but the search (no
\* request that creates a chain, no metadata read, no write), the chains
\* and their metadata stay as they were and control ends in the failure.
C12_AbsentRootIsFatal ==
    (\A k \in DOMAIN chains : chains[k].name # RootName)
    => /\ \A k \in DOMAIN reqs : reqs[k].what = "search_chain"
       /\ pc \in {"find_rule_chain", "failed"}
       /\ root_chain = NoItem
       /\ fetched = NoDoc
       /\ doc = NoDoc
       /\ writes = <<>>
       /\ okRuns = 0
       /\ Len(chains) <= 1
       /\ \A c \in DOMAIN metadata : metadata[c] = PlainDoc(c)

C12_Witness ==
    /\ pc = "failed"
    /\ reqs = <<Req("search_chain", "ok")>>
    /\ page = <<RootItemV2>>
    /\ root_chain = NoItem

(***************************************************************************)
(* Further properties of the run                                           *)
(***************************************************************************)
\* C13: a login whose response is empty or has no token field fails and is
\* the last request of the run, which does not exit with status zero; after
\* any other login response every later request of the run carries the
\* token that login returned.
C13_LoginTokenAttached ==
    /\ (reqs # <<>> /\ reqs[1] = Req("login", "no_token"))
          => /\ Len(reqs) = 1
             /\ pc \in {"failed", "exited"}
             /\ exit_status # 0
             /\ token = NoToken
    /\ \A k \in DOMAIN reqs :
          k > 1 => /\ reqs[1] = Req("login", "token")
                   /\ auth[k] = Bearer(token)

(***************************************************************************)
(* Further properties of the rule chain reconciliation                     *)
(***************************************************************************)
SinkIndexes(d) == {k - 1 : k \in {j \in DOMAIN d.nodes : d.nodes[j].type = KafkaType}}

DispatchIndexes(d) ==
    {k - 1 : k \in {j \in DOMAIN d.nodes : Contains(SwitchSub, d.nodes[j].type)}}

Least(S) == CHOOSE m \in S : \A n \in S : m <= n

Reconciled == pc \in {"write_primary", "write_secondary", "chain_done"}

\* C14: when the document that was read has one or several nodes of the
\* sink type and a dispatch node, the reconciled document has the same
\* nodes (none added, none removed), the edge the run looks for or appends
\* runs from the first dispatch node to the first sink node in sequence
\* order, every write sends that document, and after a successful run the
\* stored document has as many sink nodes as the one read.
C14_NoSecondSink ==
    (Reconciled /\ SinkCount(fetched) >= 1)
    => LET s == Least(SinkIndexes(fetched))
           d == Least(DispatchIndexes(fetched))
       IN  /\ doc.nodes = fetched.nodes
           /\ SinkCount(doc) = SinkCount(fetched)
           /\ kafka_index = s
           /\ msg_switch_index = d
           /\ \/ doc.connections = fetched.connections
              \/ doc.connections = Append(fetched.connections, Connection(d, s))
           /\ HasConnection(doc.connections, d, s)
           /\ \A k \in DOMAIN writes : writes[k].payload = doc
           /\ pc = "chain_done" => SinkCount(Stored) = SinkCount(fetched)

C14_Witness ==
    /\ pc = "chain_done"
    /\ Len(fetched.nodes) = 3
    /\ fetched.nodes[1].type = SwitchType
    /\ fetched.nodes[2].type = KafkaType
    /\ fetched.nodes[3].type = KafkaType
    /\ fetched.connections = <<>>
    /\ Stored.connections = <<Connection(0, 1)>>

(***************************************************************************)
(* Further properties of the device reconciliation                         *)
(***************************************************************************)
Creates == {k \in DOMAIN reqs : reqs[k].what = "create_device"}

UpAnswers == {200, 401, 403}

InWait == pc = "wait_for_tb"

TimedOut == pc \in {"failed", "exited"} /\ reqs = <<>>

C18_NoOpOverwrite ==
    (/\ Reconciled
     /\ SinkCount(fetched) >= 1
     /\ EdgeCount(fetched, Least(DispatchIndexes(fetched)),
                  Least(SinkIndexes(fetched)), PostTelemetry) >= 1)
    => /\ doc = fetched
       /\ \A k \in DOMAIN writes : writes[k].payload = fetched
       /\ pc = "chain_done" => Stored = fetched

C18_Witness ==
    /\ pc = "chain_done"
    /\ SinkCount(fetched) = 1
    /\ EdgeCount(fetched, msg_switch_index, kafka_index, PostTelemetry) = 1
    /\ Len(writes) = 1
    /\ writes[1].payload = fetched
    /\ Stored = fetched

Linked(d, from, to) ==
    \E k \in DOMAIN d.connections :
        /\ d.connections[k].fromIndex = from
        /\ d.connections[k].toIndex = to

Edge(from, to) == [fromIndex |-> from, toIndex |-> to, type |-> PostTelemetry]

\* C19: when the document that was read has a sink node and no connection
\* from the first dispatch node to the first sink node, the reconciled
\* document has the nodes that were read and the connections that were
\* read followed by one edge from that dispatch node to that sink node;
\* when it has no sink node, the reconciled document has the nodes that
\* were read followed by one sink node, whose index is the previous node
\* count, and the connections that were read followed by one edge from the
\* first dispatch node to that index.
C19_RepairPartialState ==
    LET d == Least(DispatchIndexes(fetched))
        n == Len(fetched.nodes)
    IN  /\ (/\ Reconciled
            /\ SinkCount(fetched) >= 1
            /\ ~Linked(fetched, d, Least(SinkIndexes(fetched))))
           => /\ doc.nodes = fetched.nodes
              /\ doc.connections =
                    Append(fetched.connections,
                           Edge(d, Least(SinkIndexes(fetched))))
        /\ (Reconciled /\ SinkCount(fetched) = 0)
           => /\ Len(doc.nodes) = n + 1
              /\ SubSeq(doc.nodes, 1, n) = fetched.nodes
              /\ doc.nodes[n + 1].type = KafkaType
              /\ kafka_index = n
              /\ doc.connections = Append(fetched.connections, Edge(d, n))

C19_Witness ==
    /\ pc = "chain_done"
    /\ SinkCount(fetched) = 1
    /\ Len(fetched.connections) = 1
    /\ ~Linked(fetched, msg_switch_index, kafka_index)
    /\ Stored.nodes = fetched.nodes
    /\ Len(Stored.connections) = 2
    /\ Stored.connections[2] = Edge(msg_switch_index, kafka_index)

(***************************************************************************)
(* Properties of a reconciliation raced by another writer                  *)
(***************************************************************************)
Extends(d, e) ==
    /\ IsPrefix(d.nodes, e.nodes)
    /\ IsPrefix(d.connections, e.connections)

\* C17: when another client saved the document after the reconciler read
\* it, a reconciliation that succeeds has sent, in every write, the document
\* it derived from what it read, the stored document is that document, and
\* what the other client added is not in it.
C17_LastWriteWins ==
    (pc = "chain_done" /\ external # NoDoc)
    => /\ Extends(fetched, doc)
       /\ Len(doc.nodes) <= Len(fetched.nodes) + 1
       /\ Len(doc.connections) <= Len(fetched.connections) + 1
       /\ \A k \in DOMAIN writes : writes[k].payload = doc
       /\ writes[Len(writes)].outcome = "ok"
       /\ Stored = doc
       /\ Stored # external
       /\ ~Extends(external, Stored)

C17_Witness ==
    /\ pc = "chain_done"
    /\ external # NoDoc
    /\ Len(external.nodes) = Len(fetched.nodes) + 1
    /\ Len(Stored.nodes) = Len(fetched.nodes)
    /\ Len(writes) = 1

(***************************************************************************)
(* Properties of the simulator                                             *)
(***************************************************************************)
HttpPosts == SelectSeq(posts, LAMBDA p : p.kind = "http")

KafkaSends == SelectSeq(posts, LAMBDA p : p.kind = "kafka")

SimEnded == sim_pc \in {"returned", "raised"}

\* C20: with once set the simulation ends; it begins at most one burst; the
\* telemetry posts follow the token list entry by entry, in order, one post
\* for each entry; a Kafka publish comes right after the successful post of
\* the same token and only with a producer configured; a failed post is the
\* last thing sent; a simulation that returns has posted to every entry of
\* the list (and published each when a producer is configured) in one burst.
C20_OnceSingleBurst ==
    /\ [](once =>
            /\ burst <= 1
            /\ Len(HttpPosts) <= Len(tokens)
            /\ \A k \in DOMAIN HttpPosts : HttpPosts[k].token = tokens[k]
            /\ \A j \in DOMAIN posts :
                  posts[j].kind = "kafka"
                  => /\ producer
                     /\ j > 1
                     /\ posts[j - 1] = [posts[j] EXCEPT !.kind = "http",
                                                        !.outcome = "ok"]
            /\ \A j \in DOMAIN posts :
                  posts[j].outcome # "ok"
                  => j = Len(posts) /\ sim_pc = "raised"
            /\ sim_pc = "returned"
                  => /\ burst = 1
                     /\ Len(HttpPosts) = Len(tokens)
                     /\ producer = kafka_bootstrap
                     /\ Len(KafkaSends) = IF producer THEN Len(tokens) ELSE 0)
    /\ ((once /\ sim_pc = "setup") ~> SimEnded)

C20_Witness ==
    /\ once
    /\ sim_pc = "raised"
    /\ producer
    /\ Len(tokens) = 2
    /\ Len(posts) = 3
    /\ posts[2].kind = "kafka"
    /\ posts[3] = Post("http", tokens[2], 2, "error")

====
